---- MODULE Spec2Model ----
(***************************************************************************)
(* Nebula Arcade: the LLM request orchestration layer.                     *)
(*                                                                         *)
(*  - retryWithBackoff (transport with retry/backoff), in the three        *)
(*    versions the repository holds;                                       *)
(*  - the batch prefetch queue of CipherGame.loadGame and                  *)
(*    EmojiGame.loadNextChallenge, with the React scheduling that decides  *)
(*    when the queue ref and the closures see a state update.              *)
(***************************************************************************)
EXTENDS Integers, Sequences, FiniteSets, TLC

(***************************************************************************)
(* Bounds of the model.                                                    *)
(***************************************************************************)
MaxBatch == 3      \* longest array the model returns in one response

(***************************************************************************)
(* Program constants.                                                      *)
(***************************************************************************)
DefaultRetries == 3          \* retries: number = 3
DefaultInitialDelay == 2000  \* initialDelay: number = 2000

VARIABLES
    \* ---- retryWithBackoff, one invocation ----
    variant,        \* which version of the service file is linked
    rpc,            \* "idle" | "attempt" | "sleep" | "returned" | "thrown"
    i,              \* loop counter
    currentDelay,   \* let currentDelay
    timers,         \* the delays handed to setTimeout, in order
    calls,          \* number of times operation() was invoked
    thrown,         \* the error the invocation ended with (NoError if none)
    \* ---- game controller with a prefetch queue ----
    game,           \* "cipher" | "emoji"
    strict,         \* TRUE: development build, React.StrictMode re-runs mount effects
    mounts,         \* how many times the mount effect has run
    challenge,      \* useState challenge: <<>> is null, <<c>> an item
    status,         \* useState status
    loading,        \* useState loading (CipherGame)
    quotaError,     \* useState quotaError (CipherGame)
    queue,          \* useState queue
    queueRef,       \* queueRef.current
    history,        \* useState history
    saved,          \* localStorage item 'cipher_history' / 'emoji_history': absent, or one list
    fetches,        \* batch fetches in flight, in order of issue
    logged          \* the last error handed to console.error by the catch block

retryVars == <<variant, rpc, i, currentDelay, timers, calls, thrown>>
gameVars == <<game, strict, mounts, challenge, status, loading, quotaError,
              queue, queueRef, history, saved, fetches, logged>>

VARIABLES
    \* ---- the service module: credential, caches, one content operation ----
    svc,            \* which version of the service file is linked
    envKey,         \* process.env.API_KEY
    storedKey,      \* localStorage item 'nebula_api_key'
    moduleAi,       \* the module-level client `ai` (key it was built from)
    caches,         \* localStorage caches: storage key -> entries in key order
    recipes,        \* history: one successful combination (pair, data, value of others), or none
    others,         \* history: how many other pairs have been combined
    op              \* the content operation in progress or just finished

svcVars == <<svc, envKey, storedKey, moduleAi, caches, recipes, others, op>>
VARIABLES
    \* ---- LadderGame, ArenaGame, AlchemyGame (with game, strict, mounts,
    \* challenge, loading, quotaError and logged above) ----
    validating,     \* useState validating (LadderGame)
    hintLoading,    \* useState hintLoading (LadderGame)
    evaluating,     \* useState evaluating (ArenaGame)
    won,            \* useState won (LadderGame)
    steps,          \* useState steps (LadderGame): how many steps the bridge has
    feedback,       \* useState feedback (LadderGame)
    activeHint,     \* useState activeHint (LadderGame): 0 for null, or the step the hint was asked for
    result,         \* useState result (ArenaGame)
    selected,       \* useState selected (AlchemyGame)
    recentResult,   \* useState recentResult (AlchemyGame)
    elements,       \* useState elements (AlchemyGame), newest first
    requests        \* service calls in flight, in order of issue

playVars == <<validating, hintLoading, evaluating, won, steps, feedback, activeHint,
              result, selected, recentResult, elements, requests>>
vars == <<retryVars, gameVars, svcVars, playVars>>

(***************************************************************************)
(* Strings.  A message is a sequence of words; String.prototype.includes   *)
(* is the search for a contiguous run of words, toLowerCase maps each word.*)
(***************************************************************************)
Lower(w) ==
    CASE w = "Quota" -> "quota"
      [] w = "QUOTA" -> "quota"
      [] w = "Resource" -> "resource"
      [] w = "RESOURCE" -> "resource"
      [] w = "Exhausted" -> "exhausted"
      [] w = "EXHAUSTED" -> "exhausted"
      [] w = "Exceeded" -> "exceeded"
      [] w = "Overloaded" -> "overloaded"
      [] w = "Not" -> "not"
      [] w = "NOT" -> "not"
      [] w = "Found" -> "found"
      [] w = "FOUND" -> "found"
      [] w = "Entity" -> "entity"
      [] w = "Requested" -> "requested"
      [] w = "The" -> "the"
      [] w = "Max" -> "max"
      [] w = "Model" -> "model"
      [] w = "Internal" -> "internal"
      [] w = "API_KEY_INVALID" -> "api_key_invalid"
      [] w = "API_KEY_MISSING" -> "api_key_missing"
      [] OTHER -> w

toLowerCase(s) == [k \in 1..Len(s) |-> Lower(s[k])]

includes(s, needle) ==
    \E k \in 0..(Len(s) - Len(needle)) :
        SubSeq(s, k + 1, k + Len(needle)) = needle

\* error.message is a string or undefined; UndefinedMessage stands for undefined
UndefinedMessage == <<"<undefined>">>

\* error.status || error.response?.status, with "undefined" for a missing field
Statuses == {"RESOURCE_EXHAUSTED", "429", "503", "500", "404", "undefined"}
ResponseStatuses == {"429", "503", "undefined"}

ProviderMessages ==
    { UndefinedMessage,
      <<>>,
      <<"Internal", "error">>,
      <<"Quota", "exceeded", "for", "metric">>,
      <<"you", "exceeded", "your", "current", "quota">>,
      <<"Resource", "Exhausted">>,
      <<"RESOURCE", "EXHAUSTED", "Requested", "entity", "was", "not", "found">>,
      <<"The", "model", "is", "overloaded">>,
      <<"Model", "Overloaded", "quota">>,
      <<"got", "status", "429">>,
      <<"Requested", "entity", "was", "not", "found">>,
      <<"Model", "Not", "Found">>,
      <<"overloaded", "resource", "not", "found">> }

ProviderErrors ==
    [ name : {"ApiError"}, message : ProviderMessages,
      status : Statuses, responseStatus : ResponseStatuses ]

MkError(n, m) == [name |-> n, message |-> m, status |-> "undefined", responseStatus |-> "undefined"]

NoError == MkError("<none>", <<>>)
QuotaExceededError == MkError("QuotaExceededError", <<"Quota", "Exceeded">>)
ApiKeyInvalid == MkError("Error", <<"API_KEY_INVALID">>)
MaxRetriesExceeded == MkError("Error", <<"Max", "retries", "exceeded">>)
SyntaxError == MkError("SyntaxError", <<"Unexpected", "token">>)

Variants == {"App666", "App1078", "part005"}

(***************************************************************************)
(* retryWithBackoff: the catch block.                                      *)
(***************************************************************************)
errorMessageOf(error) ==
    IF error.message = UndefinedMessage THEN <<>> ELSE toLowerCase(error.message)

statusOf(error) ==
    IF error.status # "undefined" THEN error.status ELSE error.responseStatus

isApiKeyMissing(v, error) ==
    v = "part005" /\ error.message = <<"API_KEY_MISSING">>

isInvalidCredential(v, error) ==
    /\ v = "part005"
    /\ \/ includes(errorMessageOf(error), <<"entity", "was", "not", "found">>)
       \/ includes(errorMessageOf(error), <<"not", "found">>)

isQuota(error) ==
    \/ statusOf(error) = "RESOURCE_EXHAUSTED"
    \/ (statusOf(error) = "429" /\ includes(errorMessageOf(error), <<"quota">>))
    \/ includes(errorMessageOf(error), <<"resource", "exhausted">>)

isRetryable(v, error) ==
    \/ statusOf(error) = "429"
    \/ statusOf(error) = "503"
    \/ includes(errorMessageOf(error), <<"429">>)
    \/ includes(errorMessageOf(error), <<"overloaded">>)
    \/ (v = "App1078" /\ includes(errorMessageOf(error), <<"not", "found">>))

\* variation: the retryable test placed before the quota test
classify_retryableFirst(v, error) ==
    IF isApiKeyMissing(v, error) THEN "missing"
    ELSE IF isInvalidCredential(v, error) THEN "credential"
    ELSE IF isRetryable(v, error) THEN "transient"
    ELSE IF isQuota(error) THEN "quota"
    ELSE "other"

\* how the catch block classifies a failure: the first branch that applies
classify(v, error) ==
    IF isApiKeyMissing(v, error) THEN "missing"
    ELSE IF isInvalidCredential(v, error) THEN "credential"
    ELSE IF isQuota(error) THEN "quota"
    ELSE IF isRetryable(v, error) THEN "transient"
    ELSE "other"

\* variation: the loop bound in place of the last-attempt test
shouldRetry_everyAttempt(v, error, k, retries) ==
    classify(v, error) = "transient" /\ k < retries

shouldRetry(v, error, k, retries) ==
    classify(v, error) = "transient" /\ k < retries - 1

\* what the catch block throws when it does not retry
rethrown(v, error) ==
    CASE classify(v, error) = "credential" -> ApiKeyInvalid
      [] classify(v, error) = "quota" -> QuotaExceededError
      [] OTHER -> error

(***************************************************************************)
(* retryWithBackoff as a process: one step per suspension point.           *)
(***************************************************************************)
RetryInit ==
    /\ variant \in Variants
    /\ rpc = "idle"
    /\ i = 0
    /\ currentDelay = DefaultInitialDelay
    /\ timers = <<>>
    /\ calls = 0
    /\ thrown = NoError

\* retryWithBackoff(operation): enter the loop and call operation()
retryWithBackoff ==
    /\ rpc \in {"idle", "returned", "thrown"}
    /\ i' = 0
    /\ currentDelay' = DefaultInitialDelay
    /\ timers' = <<>>
    /\ thrown' = NoError
    /\ IF 0 < DefaultRetries
         THEN rpc' = "attempt" /\ calls' = 1
         ELSE rpc' = "thrown" /\ calls' = 0
    /\ UNCHANGED <<variant, gameVars, svcVars, playVars>>

\* await operation() resolves: return
OperationResolves ==
    /\ rpc = "attempt"
    /\ rpc' = "returned"
    /\ UNCHANGED <<variant, i, currentDelay, timers, calls, thrown, gameVars, svcVars, playVars>>

\* await operation() rejects with error: the catch block
OperationRejects(error) ==
    /\ rpc = "attempt"
    /\ IF shouldRetry(variant, error, i, DefaultRetries)
         THEN /\ timers' = Append(timers, currentDelay)
              /\ rpc' = "sleep"
              /\ thrown' = thrown
         ELSE /\ timers' = timers
              /\ rpc' = "thrown"
              /\ thrown' = rethrown(variant, error)
    /\ UNCHANGED <<variant, i, currentDelay, calls, gameVars, svcVars, playVars>>

\* the setTimeout promise resolves: double the delay, continue the loop
TimerFires ==
    /\ rpc = "sleep"
    /\ currentDelay' = currentDelay * 2
    /\ i' = i + 1
    /\ IF i + 1 < DefaultRetries
         THEN rpc' = "attempt" /\ calls' = calls + 1 /\ thrown' = thrown
         ELSE rpc' = "thrown" /\ calls' = calls /\ thrown' = MaxRetriesExceeded
    /\ UNCHANGED <<variant, timers, gameVars, svcVars, playVars>>

(***************************************************************************)
(* Content items and model responses.                                      *)
(***************************************************************************)
\* the identifying fields (titles, phrases) the model can produce
Names == {"Matrix", "Tetris"}

\* CipherChallenge is identified by original, EmojiChallenge by answer
Items(g) == IF g = "cipher" THEN [original : Names] ELSE [answer : Names]

identOf(g, c) == IF g = "cipher" THEN c.original ELSE c.answer

SeqsUpTo(S, n) == UNION {[1..k -> S] : k \in 0..n}

\* the arrays the model may answer with: any items, repeats included
Batches(g) == SeqsUpTo(Items(g), MaxBatch)

\* arrays of strings without repeats, as addToHistory builds them
Histories == {h \in SeqsUpTo(Names, Cardinality(Names)) :
                 \A a, b \in 1..Len(h) : h[a] = h[b] => a = b}

\* response.text: empty, or a body that is JSON or not, possibly inside a
\* markdown code fence
ResponseTexts(g) ==
    [fenced : {FALSE}, kind : {"empty", "garbage"}, value : {<<>>}]
    \cup [fenced : {FALSE}, kind : {"json"}, value : Batches(g)]
    \cup [fenced : {TRUE}, kind : {"json"}, value : SeqsUpTo(Items(g), 1)]

cleanJson(text) == [text EXCEPT !.fenced = FALSE]

\* JSON.parse: a value, or a SyntaxError
parses(text) == text.kind = "json" /\ ~text.fenced

\* what retryWithBackoff can hand to its caller
Pending == [kind |-> "pending", text |-> [fenced |-> FALSE, kind |-> "empty", value |-> <<>>],
            err |-> NoError]
Returned(text) == [kind |-> "return", text |-> text, err |-> NoError]
Threw(e) == [kind |-> "throw", text |-> [fenced |-> FALSE, kind |-> "empty", value |-> <<>>],
             err |-> e]

\* provider failures tried in the game specification
SampleErrors ==
    { [name |-> "ApiError", message |-> <<"The", "model", "is", "overloaded">>,
       status |-> "503", responseStatus |-> "undefined"],
      [name |-> "ApiError", message |-> <<"Quota", "exceeded", "for", "metric">>,
       status |-> "429", responseStatus |-> "undefined"],
      [name |-> "ApiError", message |-> <<"Requested", "entity", "was", "not", "found">>,
       status |-> "404", responseStatus |-> "undefined"] }

RetryThrows == {rethrown(v, e) : v \in Variants, e \in SampleErrors}

RetryOutcomes(g) ==
    {Returned(t) : t \in ResponseTexts(g)} \cup {Threw(e) : e \in RetryThrows}

(***************************************************************************)
(* generateCipherChallengeBatch / generateEmojiChallengeBatch, after the   *)
(* await of retryWithBackoff.                                              *)
(***************************************************************************)
Resolve(batch) == [kind |-> "resolve", batch |-> batch, err |-> NoError]
Reject(e) == [kind |-> "reject", batch |-> <<>>, err |-> e]

\* variation: failures swallowed into an empty batch
generateBatch_swallow(r) ==
    IF r.kind = "throw" THEN Resolve(<<>>)
    ELSE IF r.text.kind = "empty" THEN Resolve(<<>>)
    ELSE IF parses(cleanJson(r.text)) THEN Resolve(r.text.value)
    ELSE Resolve(<<>>)

generateBatch(r) ==
    IF r.kind = "throw" THEN Reject(r.err)
    ELSE IF r.text.kind = "empty" THEN Resolve(<<>>)
    ELSE IF parses(cleanJson(r.text)) THEN Resolve(r.text.value)
    ELSE Reject(SyntaxError)

(***************************************************************************)
(* The controller: CipherGame / EmojiGame.                                 *)
(***************************************************************************)
arrayIncludes(arr, x) == \E k \in 1..Len(arr) : arr[k] = x

\* variation: the filter looks at the latest history entry only
validBatchOf_latestOnly(g, batch, currentHistory) ==
    SelectSeq(batch, LAMBDA c :
        currentHistory = <<>> \/ currentHistory[Len(currentHistory)] # identOf(g, c))

\* batch.filter(c => !currentHistory.includes(c.original))
validBatchOf(g, batch, currentHistory) ==
    SelectSeq(batch, LAMBDA c : ~arrayIncludes(currentHistory, identOf(g, c)))

\* variation: slice(0), the head stays in the queue
slice1_keepHead(arr) == arr

\* prev.slice(1) / validBatch.slice(1)
slice1(arr) == IF arr = <<>> THEN <<>> ELSE Tail(arr)

\* variation: the identifier is not appended
addToHistory_forget(prev, item) == prev

\* prev => prev.includes(item) ? prev : [...prev, item]
addToHistory(prev, item) == IF arrayIncludes(prev, item) THEN prev ELSE Append(prev, item)

\* useEffect(() => { localStorage.setItem(key, JSON.stringify(history)) }, [history]),
\* run with the render that follows a change of history
persist(prev, next, item) == IF next # prev THEN <<next>> ELSE item

RemoveAt(s, k) == SubSeq(s, 1, k - 1) \o SubSeq(s, k + 1, Len(s))

\* a settled promise runs its continuation before any other task
Settled == \E k \in 1..Len(fetches) : fetches[k].resp.kind # "pending"
Quiet == ~Settled

MountRuns == IF strict THEN 2 ELSE 1
Mounted == mounts = MountRuns

GameInit ==
    /\ game \in {"cipher", "emoji"}
    /\ strict \in BOOLEAN
    /\ mounts = 0
    /\ challenge = <<>>
    /\ status = "IDLE"
    /\ loading = FALSE
    /\ quotaError = FALSE
    /\ queue = <<>>
    /\ queueRef = <<>>
    /\ history \in Histories
    /\ saved = IF history = <<>> THEN <<>> ELSE <<history>>
    /\ fetches = <<>>
    /\ logged = NoError

\* loadGame / loadNextChallenge up to the await (or the early return)
LoadGame(currentHistory) ==
    /\ IF queueRef # <<>>
         THEN /\ challenge' = <<Head(queueRef)>>
              /\ queue' = slice1(queue)
              /\ fetches' = fetches
              /\ loading' = FALSE
              /\ status' = "IDLE"
         ELSE /\ challenge' = IF game = "cipher" THEN <<>> ELSE challenge
              /\ queue' = queue
              /\ fetches' = Append(fetches, [hist |-> currentHistory, resp |-> Pending])
              /\ loading' = (game = "cipher")
              /\ status' = IF game = "cipher" THEN "IDLE" ELSE "LOADING"
    /\ quotaError' = FALSE
    /\ queueRef' = queue'
    /\ UNCHANGED <<logged>>

\* useEffect(() => { loadGame(history) }, [])
MountEffect ==
    /\ mounts < MountRuns
    /\ mounts' = mounts + 1
    /\ LoadGame(history)
    /\ saved' = <<history>>
    /\ UNCHANGED <<game, strict, history, retryVars, svcVars, playVars>>

\* the promise of retryWithBackoff settles for fetch k
ServiceSettles(k, r) ==
    /\ Quiet
    /\ fetches[k].resp.kind = "pending"
    /\ fetches' = [fetches EXCEPT ![k].resp = r]
    /\ UNCHANGED <<game, strict, mounts, challenge, status, loading, quotaError,
                   queue, queueRef, history, saved, logged, retryVars, svcVars, playVars>>

\* loadGame / loadNextChallenge after the await, for fetch k
LoadContinuation(k) ==
    /\ fetches[k].resp.kind # "pending"
    /\ LET got == generateBatch(fetches[k].resp)
           validBatch == validBatchOf(game, got.batch, fetches[k].hist)
           admitted == got.kind = "resolve" /\ Len(got.batch) > 0 /\ Len(validBatch) > 0
           quota == got.kind = "reject" /\ got.err.name = "QuotaExceededError"
       IN /\ challenge' = IF admitted THEN <<validBatch[1]>> ELSE challenge
          /\ queue' = IF admitted THEN slice1(validBatch) ELSE queue
          /\ logged' = IF got.kind = "reject" /\ ~quota THEN got.err ELSE logged
          /\ IF game = "cipher"
               THEN /\ quotaError' = (quota \/ quotaError)
                    /\ loading' = FALSE
                    /\ status' = status
               ELSE /\ status' = IF quota THEN "QUOTA" ELSE "IDLE"
                    /\ UNCHANGED <<quotaError, loading>>
    /\ fetches' = RemoveAt(fetches, k)
    /\ UNCHANGED <<game, strict, mounts, queueRef, history, saved, retryVars, svcVars, playVars>>

\* useEffect(() => { queueRef.current = queue }, [queue]), run after paint
SyncQueueRef ==
    /\ Quiet
    /\ queueRef # queue
    /\ queueRef' = queue
    /\ UNCHANGED <<game, strict, mounts, challenge, status, loading, quotaError,
                   queue, history, saved, fetches, logged, retryVars, svcVars, playVars>>

\* the form with the current challenge is on screen
formVisible ==
    /\ Quiet
    /\ Mounted
    /\ challenge # <<>>
    /\ IF game = "cipher" THEN ~quotaError /\ ~loading
                          ELSE status \notin {"LOADING", "QUOTA"}

answered == IF game = "cipher" THEN status = "SUCCESS" ELSE status \in {"SUCCESS", "REVEAL"}

handleSubmit(correct) ==
    /\ formVisible
    /\ ~answered
    /\ IF correct
         THEN /\ status' = "SUCCESS"
              /\ history' = addToHistory(history, identOf(game, challenge[1]))
         ELSE /\ status' = IF game = "cipher" THEN "FAIL" ELSE "WRONG"
              /\ history' = history
    /\ saved' = persist(history, history', saved)
    /\ queueRef' = queue
    /\ UNCHANGED <<game, strict, mounts, challenge, loading, quotaError, queue,
                   fetches, logged, retryVars, svcVars, playVars>>

\* CipherGame.handleGiveUp / EmojiGame.handleSkip
handleGiveUp ==
    /\ formVisible
    /\ ~answered
    /\ status' = IF game = "cipher" THEN "FAIL" ELSE "REVEAL"
    /\ history' = addToHistory(history, identOf(game, challenge[1]))
    /\ saved' = persist(history, history', saved)
    /\ queueRef' = queue
    /\ UNCHANGED <<game, strict, mounts, challenge, loading, quotaError, queue,
                   fetches, logged, retryVars, svcVars, playVars>>

\* CipherGame.handleNext / EmojiGame.handleNextLevel
handleNext ==
    /\ formVisible
    /\ answered
    /\ LoadGame(history)
    /\ UNCHANGED <<game, strict, mounts, history, saved, retryVars, svcVars, playVars>>

\* clearHistory: empty the history, remove the stored item, reload the page
\* (the effect of the render with the empty history may still store it
\* before the page unloads)
clearHistory ==
    /\ Quiet
    /\ Mounted
    /\ IF game = "cipher" THEN ~quotaError ELSE status # "QUOTA"
    /\ history' = <<>>
    /\ saved' \in {<<>>, << <<>> >>}
    /\ mounts' = 0
    /\ challenge' = <<>>
    /\ status' = "IDLE"
    /\ loading' = FALSE
    /\ quotaError' = FALSE
    /\ queue' = <<>>
    /\ queueRef' = <<>>
    /\ fetches' = <<>>
    /\ logged' = NoError
    /\ UNCHANGED <<game, strict, retryVars, svcVars, playVars>>

GameNext ==
    \/ MountEffect
    \/ \E k \in 1..Len(fetches) : \E r \in RetryOutcomes(game) : ServiceSettles(k, r)
    \/ \E k \in 1..Len(fetches) : LoadContinuation(k)
    \/ SyncQueueRef
    \/ \E correct \in BOOLEAN : handleSubmit(correct)
    \/ handleGiveUp
    \/ handleNext
    \/ clearHistory

(***************************************************************************)
(* The service module: strings as UTF-16 code units.                       *)
(* Array.prototype.sort without a comparator orders strings by code units, *)
(* toLowerCase maps A-Z to a-z, join('+') puts code unit 43 in between.    *)
(***************************************************************************)
NameFire == <<70, 105, 114, 101>>            \* "Fire"
NameFireLower == <<102, 105, 114, 101>>      \* "fire"
NameWater == <<87, 97, 116, 101, 114>>       \* "Water"
NameWaterLower == <<119, 97, 116, 101, 114>> \* "water"

\* the element names the player combines
ElemNames == {NameFire, NameFireLower, NameWater, NameWaterLower}

lowerUnit(c) == IF c >= 65 /\ c <= 90 THEN c + 32 ELSE c
toLowerCaseUnits(str) == [k \in 1..Len(str) |-> lowerUnit(str[k])]

\* a < b in the order of sort(): first differing code unit, then length
unitsLess(a, b) ==
    LET n == IF Len(a) < Len(b) THEN Len(a) ELSE Len(b)
        diff == {k \in 1..n : a[k] # b[k]}
    IN IF diff = {} THEN Len(a) < Len(b)
       ELSE LET k == CHOOSE m \in diff : \A o \in diff : m <= o
            IN a[k] < b[k]

\* variation: the pair is joined in argument order
sortPair_asGiven(elem1, elem2) == <<elem1, elem2>>

\* [elem1, elem2].sort()
sortPair(elem1, elem2) ==
    IF unitsLess(elem2, elem1) THEN <<elem2, elem1>> ELSE <<elem1, elem2>>

\* arr.join('+')
joinPlus(arr) == arr[1] \o <<43>> \o arr[2]

\* const cacheKey = [elem1, elem2].sort().join('+').toLowerCase()
cacheKey(elem1, elem2) == toLowerCaseUnits(joinPlus(sortPair(elem1, elem2)))

(***************************************************************************)
(* The localStorage caches.  A cache is the list of its entries in the     *)
(* order of Object.keys (insertion order: no key is an integer index).     *)
(***************************************************************************)
CacheLimit == 500       \* if (keys.length > 500) delete cache[keys[0]]

SvcVariants == {"App642", "Arena211", "part005", "part001"}

\* versions of the service that keep an alchemy cache
hasCache(v) == v \in {"App642", "Arena211"}

\* getCache(key)
getCache(key) == caches[key]

hasEntry(entries, id) == \E n \in 1..Len(entries) : entries[n].id = id

\* getCache(key)[id]: the stored object (entryOf is used under hasEntry only)
entryOf(entries, id) ==
    entries[CHOOSE n \in 1..Len(entries) : entries[n].id = id].data

\* cache[id] = data: an existing key keeps its place, a new one goes last
assign(entries, id, data) ==
    IF hasEntry(entries, id)
      THEN [n \in 1..Len(entries) |->
               IF entries[n].id = id THEN [id |-> id, data |-> data] ELSE entries[n]]
      ELSE Append(entries, [id |-> id, data |-> data])

\* variation: at the ceiling the last key of Object.keys is deleted
saveCache_evictNewest(v, entries, id, data) ==
    LET cache == assign(entries, id, data)
    IN IF v = "App642" /\ Len(cache) > CacheLimit
         THEN SubSeq(cache, 1, Len(cache) - 1) ELSE cache

\* saveCache(key, id, data) / saveToAlchemyCache(key, result): the new list
saveCache(v, entries, id, data) ==
    LET cache == assign(entries, id, data)
    IN IF v = "App642" /\ Len(cache) > CacheLimit THEN Tail(cache) ELSE cache

(***************************************************************************)
(* Response text and its decoding.  A text is a sequence of tokens: the    *)
(* punctuation of JSON, field names, the backtick fence, line breaks, and  *)
(* the pieces of string values.  cleanJson works on the raw text, so it    *)
(* also sees the tokens inside string values.                              *)
(***************************************************************************)
Undefined == <<"<undefined>">>

\* text.replace of the fence followed by json: "<fence>" is the token of
\* three backticks
RECURSIVE replaceFenceJson(_)
replaceFenceJson(text) ==
    IF Len(text) < 2 THEN text
    ELSE IF text[1] = "<fence>" /\ text[2] = "json"
           THEN replaceFenceJson(SubSeq(text, 3, Len(text)))
           ELSE <<text[1]>> \o replaceFenceJson(Tail(text))

\* text.replace of every remaining fence
replaceFence(text) == SelectSeq(text, LAMBDA tok : tok # "<fence>")

\* text.trim()
RECURSIVE trimStart(_)
trimStart(text) ==
    IF text # <<>> /\ Head(text) = "\n" THEN trimStart(Tail(text)) ELSE text

RECURSIVE trimEnd(_)
trimEnd(text) ==
    IF text # <<>> /\ text[Len(text)] = "\n"
      THEN trimEnd(SubSeq(text, 1, Len(text) - 1)) ELSE text

trim(text) == trimEnd(trimStart(text))

\* cleanJson on the raw text
cleanJsonText(text) == trim(replaceFence(replaceFenceJson(text)))

\* the fields the service reads from a decoded object
Fields == {"name", "emoji", "isValid", "message", "title"}

\* an object is the function from Fields to its values, Undefined where the
\* object has no such field
NoObj == [f \in Fields |-> Undefined]

\* JSON.parse of the members of an object: [ok, obj]; a string value is the
\* sequence of its pieces, a repeated field takes its last value
RECURSIVE parseMembers(_)
parseMembers(m) ==
    IF Len(m) < 3 \/ m[2] # ":" \/ m[1] \in {"{", "}", "[", "]", ",", ":", "\"", "\n", "<fence>"}
      THEN [ok |-> FALSE, obj |-> NoObj]
    ELSE
      LET quoted == m[3] = "\""
          closers == {k \in 4..Len(m) : m[k] = "\""}
          last == IF ~quoted THEN 3
                  ELSE IF closers = {} THEN 0
                  ELSE CHOOSE k \in closers : \A o \in closers : k <= o
          value == IF quoted THEN SubSeq(m, 4, last - 1) ELSE <<m[3]>>
          bare == m[3] \in {"true", "false"}
          rest == SubSeq(m, last + 1, Len(m))
          one == [f \in Fields |-> IF f = m[1] THEN value ELSE Undefined]
      IN IF last = 0 \/ (~quoted /\ ~bare) \/ (quoted /\ \E k \in 4..(last - 1) : m[k] = "\n")
           THEN [ok |-> FALSE, obj |-> NoObj]
         ELSE IF rest = <<>>
           THEN [ok |-> TRUE, obj |-> one]
         ELSE IF Head(rest) # ","
           THEN [ok |-> FALSE, obj |-> NoObj]
         ELSE LET more == parseMembers(Tail(rest))
              IN [ok |-> more.ok,
                  obj |-> IF ~more.ok THEN NoObj
                          ELSE [f \in Fields |->
                                  IF more.obj[f] # Undefined THEN more.obj[f] ELSE one[f]]]

\* JSON.parse of an object text
\* variation: a text that is not an object decodes to the empty object
parseObject_lenient(text) ==
    IF Len(text) < 2 \/ text[1] # "{" \/ text[Len(text)] # "}"
      THEN [ok |-> TRUE, obj |-> NoObj]
    ELSE IF Len(text) = 2 THEN [ok |-> TRUE, obj |-> NoObj]
    ELSE parseMembers(SubSeq(text, 2, Len(text) - 1))

parseObject(text) ==
    IF Len(text) < 2 \/ text[1] # "{" \/ text[Len(text)] # "}"
      THEN [ok |-> FALSE, obj |-> NoObj]
    ELSE IF Len(text) = 2 THEN [ok |-> TRUE, obj |-> NoObj]
    ELSE parseMembers(SubSeq(text, 2, Len(text) - 1))

\* JSON.parse of an array text with at most one object in it: [ok, objs]
parseArray(text) ==
    IF Len(text) < 2 \/ text[1] # "[" \/ text[Len(text)] # "]"
      THEN [ok |-> FALSE, objs |-> <<>>]
    ELSE IF Len(text) = 2 THEN [ok |-> TRUE, objs |-> <<>>]
    ELSE LET inner == parseObject(SubSeq(text, 2, Len(text) - 1))
         IN [ok |-> inner.ok, objs |-> IF inner.ok THEN <<inner.obj>> ELSE <<>>]

\* { name: data.name, emoji: data.emoji }
nameAndEmoji(data) ==
    [f \in Fields |-> IF f \in {"name", "emoji"} THEN data[f] ELSE Undefined]

(***************************************************************************)
(* Texts the model answers with.                                           *)
(***************************************************************************)
\* "field":"value" and "field":value
member(f, v) == IF f = "isValid" THEN <<f, ":">> \o v ELSE <<f, ":", "\"">> \o v \o <<"\"">>

FieldOrder == <<"name", "emoji", "isValid", "message", "title">>

\* the members of obj from field n on, separated by commas
RECURSIVE membersFrom(_, _)
membersFrom(obj, n) ==
    IF n > Len(FieldOrder) THEN <<>>
    ELSE LET rest == membersFrom(obj, n + 1)
             this == member(FieldOrder[n], obj[FieldOrder[n]])
         IN IF obj[FieldOrder[n]] = Undefined THEN rest
            ELSE IF rest = <<>> THEN this
            ELSE this \o <<",">> \o rest

\* the JSON text of an object
stringify(obj) == <<"{">> \o membersFrom(obj, 1) \o <<"}">>

\* the same text inside a markdown code fence
wrapInFence(text) == <<"<fence>", "json", "\n">> \o text \o <<"\n", "<fence>">>

obj2(f1, v1, f2, v2) ==
    [f \in Fields |-> IF f = f1 THEN v1 ELSE IF f = f2 THEN v2 ELSE Undefined]

\* objects the model may send for each kind of operation; the last of each
\* group lacks a required field
ModelObjects(kind) ==
    CASE kind = "combine" ->
           { obj2("name", <<"Steam">>, "emoji", <<"cloud">>),
             obj2("name", <<"Code", "<fence>", "Block">>, "emoji", <<"page">>),
             obj2("emoji", <<"cloud">>, "emoji", <<"cloud">>) }
      [] kind = "validate" ->
           { obj2("isValid", <<"true">>, "message", <<"Nice">>),
             obj2("isValid", <<"false">>, "isValid", <<"false">>) }
      [] OTHER ->
           { obj2("title", <<"Trolley">>, "title", <<"Trolley">>) }

ModelTexts(kind) ==
    { <<>>, <<"Sorry", ",", "no">> }
    \cup (IF kind = "batch"
            THEN { <<"[", "]">> }
                 \cup { <<"[">> \o stringify(o) \o <<"]">> : o \in ModelObjects(kind) }
                 \cup { wrapInFence(<<"[">> \o stringify(o) \o <<"]">>) : o \in ModelObjects(kind) }
            ELSE { stringify(o) : o \in ModelObjects(kind) }
                 \cup { wrapInFence(stringify(o)) : o \in ModelObjects(kind) })

\* what retryWithBackoff hands to the operation that awaits it
SvcReturned(text) == [kind |-> "return", text |-> text, err |-> NoError]
SvcThrew(e) == [kind |-> "throw", text |-> <<>>, err |-> e]

SvcOutcomes(kind) ==
    {SvcReturned(t) : t \in ModelTexts(kind)} \cup {SvcThrew(e) : e \in RetryThrows}

(***************************************************************************)
(* The credential and getAI.                                               *)
(***************************************************************************)
CredKeys == {"K1", "K2"}

\* !!key
truthy(key) == key \notin {"undefined", "null", ""}

ApiKeyMissing == MkError("Error", <<"API_KEY_MISSING">>)
ApiKeyMissingArena == MkError("Error", <<"API", "Key", "Missing">>)
SdkKeyError == MkError("Error", <<"An", "API", "Key", "must", "be", "set">>)

NoClient == "<none>"

Client(key) == [ok |-> TRUE, client |-> key, err |-> NoError]
Throws(e) == [ok |-> FALSE, client |-> NoClient, err |-> e]

\* getAI(): the client it returns or the error it throws.  The versions
\* without a test hand the value to the GoogleGenAI constructor as it is;
\* what the constructor does with a missing key is the library's choice.
getAI(v) ==
    CASE v = "part005" ->
           IF ~truthy(envKey) THEN {Throws(ApiKeyMissing)} ELSE {Client(envKey)}
      [] v = "Arena211" ->
           LET key == IF truthy(storedKey) THEN storedKey ELSE envKey
           IN IF ~truthy(key) THEN {Throws(ApiKeyMissingArena)} ELSE {Client(key)}
      [] v = "App642" ->
           IF truthy(envKey) THEN {Client(envKey)}
           ELSE {Client(envKey), Throws(SdkKeyError)}
      [] OTHER -> {Client(moduleAi)}

(***************************************************************************)
(* Content operations of the service, one at a time: the call up to its    *)
(* await, and the continuation after retryWithBackoff has settled.         *)
(***************************************************************************)
MaxOthers == 1000    \* combinations of other pairs the model lets succeed

NoResult == [tag |-> "none", objs |-> <<>>, isNew |-> FALSE]

IdleOp == [kind |-> "none", phase |-> "idle", args |-> <<>>, key |-> <<>>,
           client |-> NoClient, issued |-> FALSE, result |-> NoResult, err |-> NoError]

\* the version of part_001 catches every error and returns null
swallows(v) == v = "part001"

\* the operation ends by returning / by throwing
resolved(o, tag, objs, isNew) ==
    [o EXCEPT !.phase = "resolved", !.result = [tag |-> tag, objs |-> objs, isNew |-> isNew]]
rejected(v, o, e) ==
    IF swallows(v) THEN resolved(o, "null", <<>>, FALSE)
    ELSE [o EXCEPT !.phase = "rejected", !.err = e]

\* const ai = getAI(); ... await retryWithBackoff(operation)
afterGetAI(v, o, g) ==
    IF g.ok THEN [o EXCEPT !.phase = "awaiting", !.client = g.client, !.issued = TRUE]
    ELSE rejected(v, o, g.err)

\* the cache key of validateLadderStep
ladderKey(current, target, guess) ==
    toLowerCaseUnits(current) \o <<95>> \o toLowerCaseUnits(target)
        \o <<95>> \o toLowerCaseUnits(guess)

\* combineAlchemyElements(elem1, elem2) up to the await
CallCombine(elem1, elem2) ==
    /\ op.phase # "awaiting"
    /\ LET key == IF hasCache(svc) THEN cacheKey(elem1, elem2) ELSE <<>>
           o == [IdleOp EXCEPT !.kind = "combine", !.args = <<elem1, elem2>>, !.key = key]
       IN IF hasCache(svc) /\ hasEntry(getCache("alchemy"), key)
            THEN op' = resolved(o, "item", <<entryOf(getCache("alchemy"), key)>>, FALSE)
            ELSE \E g \in getAI(svc) : op' = afterGetAI(svc, o, g)
    /\ UNCHANGED <<svc, envKey, storedKey, moduleAi, caches, recipes, others,
                   retryVars, gameVars, playVars>>

\* validateLadderStep(current, target, guess) up to the await
CallValidate(current, target, guess) ==
    /\ op.phase # "awaiting"
    /\ svc # "part001"
    /\ LET key == IF svc = "App642" THEN ladderKey(current, target, guess) ELSE <<>>
           o == [IdleOp EXCEPT !.kind = "validate", !.args = <<current, target, guess>>,
                               !.key = key]
       IN IF svc = "App642" /\ hasEntry(getCache("ladder"), key)
            THEN op' = resolved(o, "verdict", <<entryOf(getCache("ladder"), key)>>, FALSE)
            ELSE \E g \in getAI(svc) : op' = afterGetAI(svc, o, g)
    /\ UNCHANGED <<svc, envKey, storedKey, moduleAi, caches, recipes, others,
                   retryVars, gameVars, playVars>>

\* generateDilemmaBatch() and the other batch generators up to the await
CallBatch ==
    /\ op.phase # "awaiting"
    /\ svc # "part001"
    /\ \E g \in getAI(svc) : op' = afterGetAI(svc, [IdleOp EXCEPT !.kind = "batch"], g)
    /\ UNCHANGED <<svc, envKey, storedKey, moduleAi, caches, recipes, others,
                   retryVars, gameVars, playVars>>

\* the continuation of an operation after its await
OperationSettles(r) ==
    /\ op.phase = "awaiting"
    /\ LET text == IF r.kind = "return" THEN cleanJsonText(r.text) ELSE <<>>
           parsed == IF op.kind = "batch" THEN [ok |-> parseArray(text).ok, obj |-> NoObj]
                     ELSE parseObject(text)
           data == parsed.obj
       IN IF r.kind = "throw"
            THEN op' = rejected(svc, op, r.err) /\ UNCHANGED <<caches, recipes>>
          ELSE IF r.text = <<>>
            THEN /\ op' = CASE op.kind = "combine" -> resolved(op, "null", <<>>, FALSE)
                            [] op.kind = "validate" ->
                                 resolved(op, "verdict",
                                          <<obj2("isValid", <<"false">>, "message", <<"Error">>)>>,
                                          FALSE)
                            [] OTHER -> resolved(op, "list", <<>>, FALSE)
                 /\ UNCHANGED <<caches, recipes>>
          ELSE IF ~parsed.ok
            THEN op' = rejected(svc, op, SyntaxError) /\ UNCHANGED <<caches, recipes>>
          ELSE CASE op.kind = "combine" ->
                      /\ caches' = IF hasCache(svc)
                                     THEN [caches EXCEPT !.alchemy =
                                             saveCache(svc, @, op.key, nameAndEmoji(data))]
                                     ELSE caches
                      /\ op' = IF svc = "part005" THEN resolved(op, "item", <<data>>, FALSE)
                               ELSE resolved(op, "item", <<nameAndEmoji(data)>>, TRUE)
                      /\ recipes' \in {recipes,
                                       {[pair |-> {op.args[1], op.args[2]},
                                         data |-> nameAndEmoji(data),
                                         at |-> others]}}
                 [] op.kind = "validate" ->
                      /\ caches' = IF svc = "App642"
                                     THEN [caches EXCEPT !.ladder =
                                             saveCache(svc, @, op.key, data)]
                                     ELSE caches
                      /\ op' = resolved(op, "verdict", <<data>>, FALSE)
                      /\ UNCHANGED recipes
                 [] OTHER ->
                      /\ op' = resolved(op, "list", parseArray(text).objs, FALSE)
                      /\ UNCHANGED <<caches, recipes>>
    /\ UNCHANGED <<svc, envKey, storedKey, moduleAi, others, retryVars, gameVars, playVars>>

\* setApiKey(key)
setApiKey(key) ==
    /\ svc = "Arena211"
    /\ storedKey' = key
    /\ UNCHANGED <<svc, envKey, moduleAi, caches, recipes, others, op, retryVars, gameVars, playVars>>

\* removeApiKey(), followed by window.location.reload()
removeApiKey ==
    /\ svc = "Arena211"
    /\ storedKey # "null"
    /\ storedKey' = "null"
    /\ op' = IdleOp
    /\ UNCHANGED <<svc, envKey, moduleAi, caches, recipes, others, retryVars, gameVars, playVars>>

\* the host platform's key dialog (aistudio.openSelectKey) puts the selected
\* key into process.env.API_KEY
SelectKey(key) ==
    /\ svc # "Arena211"
    /\ envKey # key
    /\ envKey' = key
    /\ UNCHANGED <<svc, storedKey, moduleAi, caches, recipes, others, op, retryVars, gameVars, playVars>>

\* the id and data of the m-th other pair
otherId(m) == <<35, 1000 + m>>
OtherData == obj2("name", <<"Mud">>, "emoji", <<"drop">>)

\* n successive saveCache calls for the other pairs from+1 .. from+n.  Their
\* ids are not in the cache, so every call appends one entry and, in the
\* version that evicts, deletes the first entry once there are more than
\* CacheLimit: what is left is the tail of the appended list.
saveOthers(v, entries, from, n) ==
    LET all == entries \o [k \in 1..n |-> [id |-> otherId(from + k), data |-> OtherData]]
    IN IF v = "App642" /\ Len(all) > CacheLimit
         THEN SubSeq(all, Len(all) - CacheLimit + 1, Len(all))
         ELSE all

\* n successful combinations of pairs that are not in ElemNames, one after
\* the other, each a cache miss answered by the model
OtherCombinations(n) ==
    /\ op.phase # "awaiting"
    /\ hasCache(svc)
    /\ \E g \in getAI(svc) : g.ok /\ truthy(g.client)
    /\ others + n <= MaxOthers
    /\ others' = others + n
    /\ caches' = [caches EXCEPT !.alchemy = saveOthers(svc, @, others, n)]
    /\ op' = IdleOp
    /\ UNCHANGED <<svc, envKey, storedKey, moduleAi, recipes, retryVars, gameVars, playVars>>

\* how many other combinations one step of the model lets succeed
FillSteps == {CacheLimit - 1, CacheLimit}

NoCaches == [alchemy |-> <<>>, ladder |-> <<>>]

SvcInit ==
    /\ svc \in SvcVariants
    /\ envKey \in {"undefined", "", "K1"}
    /\ storedKey \in (IF svc = "Arena211" THEN {"null", "K1"} ELSE {"null"})
    /\ moduleAi = (IF svc = "part001" THEN envKey ELSE NoClient)
    /\ caches = NoCaches
    /\ recipes = {}
    /\ others = 0
    /\ op = IdleOp

SvcIdle ==
    /\ svc = "App642"
    /\ envKey = "K1"
    /\ storedKey = "null"
    /\ moduleAi = NoClient
    /\ caches = NoCaches
    /\ recipes = {}
    /\ others = 0
    /\ op = IdleOp

\* the pairs the player combines: two that differ in order and letter case,
\* and one pair in both orders
CasePairs == {<<NameFire, NameWaterLower>>, <<NameWater, NameFireLower>>}
OrderPairs == {<<NameFire, NameWater>>, <<NameWater, NameFire>>}

\* names that contain the separator of the key they are joined into
NameA == <<65>>                        \* "A"
NameC == <<67>>                        \* "C"
NameAPlusB == <<65, 43, 66>>           \* "A+B"
NameBPlusC == <<66, 43, 67>>           \* "B+C"
NameD == <<68>>                        \* "D"
NameA_B == <<65, 95, 66>>              \* "A_B"
NameB_C == <<66, 95, 67>>              \* "B_C"

\* two different pairs of element names, and two different validations
SepPairs == {<<NameAPlusB, NameC>>, <<NameA, NameBPlusC>>}
SepTriples == {<<NameA_B, NameC, NameD>>, <<NameA, NameB_C, NameD>>}

\* the service with its credential sources
CredNext ==
    \/ \E p \in CasePairs : CallCombine(p[1], p[2])
    \/ \E guess \in {NameFire, NameFireLower} : CallValidate(NameFire, NameWater, guess)
    \/ CallBatch
    \/ \E r \in SvcOutcomes(op.kind) : OperationSettles(r)
    \/ \E key \in CredKeys : setApiKey(key)
    \/ removeApiKey
    \/ \E key \in CredKeys : SelectKey(key)

\* the alchemy cache filling up
CacheNext ==
    \/ \E p \in OrderPairs : CallCombine(p[1], p[2])
    \/ \E r \in SvcOutcomes(op.kind) : OperationSettles(r)
    \/ \E n \in FillSteps : OtherCombinations(n)

(***************************************************************************)
(* LadderGame, ArenaGame and AlchemyGame: one step per handler, and one    *)
(* per continuation after an await.  The text typed by the player is the   *)
(* input of the handler that reads it.                                     *)
(***************************************************************************)
\* the longest bridge followed
MaxSteps == 2

NoValue == "null"

\* activeHint is null
NoHint == 0

Fulfilled(value) == [kind |-> "fulfilled", value |-> value, err |-> NoError]
Rejected(e) == [kind |-> "rejected", value |-> NoValue, err |-> e]
Outstanding == [kind |-> "pending", value |-> NoValue, err |-> NoError]

Purposes == {"load", "validate", "hint", "evaluate", "combine"}

\* the initial elements and the names the model answers with
INITIAL_ELEMENTS == <<"Water", "Fire">>
AlchemyAnswers == {"Steam", "Water"}

\* what a service call can settle with: a value, null, or what
\* retryWithBackoff throws
PlayValues(purpose) ==
    CASE purpose = "load" -> {"challenge", NoValue}
      [] purpose = "validate" -> {"valid", "invalid"}
      [] purpose = "hint" -> {"hint", NoValue}
      [] purpose = "evaluate" -> {"result", NoValue}
      [] purpose = "combine" -> AlchemyAnswers \cup {NoValue}

PlayOutcomes(purpose) ==
    {Fulfilled(v) : v \in PlayValues(purpose)} \cup {Rejected(e) : e \in RetryThrows}

\* a call in flight; at is the step of the bridge whose word (currentWord) it was made for
Request(purpose, arg) == [purpose |-> purpose, arg |-> arg, at |-> steps, resp |-> Outstanding]

\* a settled promise runs its continuation before any other task
PlaySettled == \E k \in 1..Len(requests) : requests[k].resp.kind # "pending"
PlayQuiet == ~PlaySettled

isQuotaExceeded(r) == r.kind = "rejected" /\ r.err.name = "QuotaExceededError"

\* what the component renders
screen ==
    CASE game = "alchemy" -> IF loading THEN "loading" ELSE "play"
      [] quotaError -> "quota"
      [] loading -> "loading"
      [] challenge # <<>> -> "play"
      [] OTHER -> "error"

\* the player can act: mount effects have run, no continuation is due
Interactive == mounts = MountRuns /\ PlayQuiet

\* LadderGame of part_007 (hints, quota screen, catch blocks) and of part_008
Ladders == {"ladder", "ladder008"}

PlayInit ==
    /\ game \in Ladders \cup {"arena", "alchemy"}
    /\ strict \in BOOLEAN
    /\ mounts = 0
    /\ challenge = <<>>
    /\ status = "IDLE"
    /\ loading = FALSE
    /\ quotaError = FALSE
    /\ queue = <<>>
    /\ queueRef = <<>>
    /\ history = <<>>
    /\ saved = <<>>
    /\ fetches = <<>>
    /\ logged = NoError
    /\ validating = FALSE
    /\ hintLoading = FALSE
    /\ evaluating = FALSE
    /\ won = FALSE
    /\ steps = 0
    /\ feedback = NoValue
    /\ activeHint = NoHint
    /\ result = NoValue
    /\ selected = <<>>
    /\ recentResult = NoValue
    /\ elements = INITIAL_ELEMENTS
    /\ requests = <<>>

PlayIdle ==
    /\ validating = FALSE
    /\ hintLoading = FALSE
    /\ evaluating = FALSE
    /\ won = FALSE
    /\ steps = 0
    /\ feedback = NoValue
    /\ activeHint = NoHint
    /\ result = NoValue
    /\ selected = <<>>
    /\ recentResult = NoValue
    /\ elements = INITIAL_ELEMENTS
    /\ requests = <<>>

\* LadderGame.loadGame up to the await
Ladder_loadGame ==
    /\ loading' = TRUE
    /\ won' = FALSE
    /\ steps' = 0
    /\ feedback' = NoValue
    /\ activeHint' = NoHint
    /\ quotaError' = FALSE
    /\ requests' = Append(requests, Request("load", NoValue))
    /\ UNCHANGED <<challenge, logged, validating, hintLoading, evaluating, result,
                   selected, recentResult, elements>>

\* ArenaGame.loadNewChallenge up to the await
Arena_loadNewChallenge ==
    /\ loading' = TRUE
    /\ result' = NoValue
    /\ quotaError' = FALSE
    /\ requests' = Append(requests, Request("load", NoValue))
    /\ UNCHANGED <<challenge, logged, validating, hintLoading, evaluating, won, steps,
                   feedback, activeHint, selected, recentResult, elements>>

\* the mount effects: useEffect(() => { loadGame() }, []) in LadderGame and
\* ArenaGame, the effect that stores the elements in AlchemyGame
PlayMount ==
    /\ mounts < MountRuns
    /\ mounts' = mounts + 1
    /\ CASE game \in Ladders -> Ladder_loadGame
         [] game = "arena" -> Arena_loadNewChallenge
         [] OTHER -> UNCHANGED <<challenge, loading, quotaError, logged, playVars>>
    /\ UNCHANGED <<game, strict, status, queue, queueRef, history, saved, fetches,
                   retryVars, svcVars>>

\* the promise of the service call settles for request k (the runs of the
\* mount effect belong to one task, so no response is handled between them)
RequestSettles(k, r) ==
    /\ Interactive
    /\ requests[k].resp.kind = "pending"
    /\ requests' = [requests EXCEPT ![k].resp = r]
    /\ UNCHANGED <<gameVars, svcVars, retryVars, validating, hintLoading, evaluating, won,
                   steps, feedback, activeHint, result, selected, recentResult, elements>>

\* LadderGame.loadGame after the await; part_008 has no try around the
\* await, so a rejection ends the handler there
Ladder_loadGameResumes(k) ==
    /\ game \in Ladders
    /\ requests[k].purpose = "load"
    /\ requests[k].resp.kind # "pending"
    /\ LET r == requests[k].resp
           data == r.kind = "fulfilled" /\ r.value # NoValue
       IN IF game = "ladder008" /\ r.kind = "rejected"
            THEN UNCHANGED <<challenge, steps, quotaError, logged, loading>>
            ELSE /\ challenge' = IF data THEN <<r.value>> ELSE challenge
                 /\ steps' = IF data THEN 1 ELSE steps
                 /\ quotaError' = (isQuotaExceeded(r) \/ quotaError)
                 /\ logged' = IF r.kind = "rejected" /\ ~isQuotaExceeded(r) THEN r.err
                                                                          ELSE logged
                 /\ loading' = FALSE
    /\ requests' = RemoveAt(requests, k)
    /\ UNCHANGED <<game, strict, mounts, status, queue, queueRef, history, saved, fetches,
                   validating, hintLoading, evaluating, won, feedback, activeHint,
                   result, selected, recentResult, elements, retryVars, svcVars>>

\* the button shown once the bridge is complete: onClick={loadGame}
Ladder_clickNext ==
    /\ game \in Ladders
    /\ Interactive
    /\ screen = "play"
    /\ won
    /\ Ladder_loadGame
    /\ UNCHANGED <<game, strict, mounts, status, queue, queueRef, history, saved, fetches,
                   retryVars, svcVars>>

\* LadderGame.handleSubmit up to the await; the player typed a word that is
\* the target word or not.  With no step on the bridge the read of the last
\* step throws after the first setters have run.  In part_008 the target
\* word wins at once, without a call of validateLadderStep.
Ladder_handleSubmit(guess) ==
    /\ game \in Ladders
    /\ Interactive
    /\ screen = "play"
    /\ ~validating
    /\ ~won
    /\ steps < MaxSteps
    /\ feedback' = NoValue
    /\ activeHint' = NoHint
    /\ quotaError' = FALSE
    /\ IF game = "ladder008" /\ steps > 0 /\ guess = "target"
         THEN /\ steps' = steps + 1
              /\ won' = TRUE
              /\ validating' = FALSE
              /\ requests' = requests
         ELSE /\ validating' = TRUE
              /\ requests' = IF steps = 0 THEN requests
                                          ELSE Append(requests, Request("validate", guess))
              /\ UNCHANGED <<won, steps>>
    /\ UNCHANGED <<game, strict, mounts, challenge, status, loading, queue, queueRef,
                   history, saved, fetches, logged, hintLoading, evaluating,
                   result, selected, recentResult, elements, retryVars, svcVars>>

\* LadderGame.handleSubmit after the await; part_008 has no try around the
\* await, so a rejection ends the handler there
Ladder_handleSubmitResumes(k) ==
    /\ game \in Ladders
    /\ requests[k].purpose = "validate"
    /\ requests[k].resp.kind # "pending"
    /\ LET r == requests[k].resp
           valid == r.kind = "fulfilled" /\ r.value = "valid"
       IN IF game = "ladder008" /\ r.kind = "rejected"
            THEN UNCHANGED <<steps, won, feedback, quotaError, validating>>
            ELSE /\ steps' = IF valid THEN steps + 1 ELSE steps
                 /\ won' = IF game = "ladder" /\ valid /\ requests[k].arg = "target"
                              THEN TRUE ELSE won
                 /\ feedback' = CASE r.kind = "fulfilled" /\ ~valid -> "message"
                                  [] r.kind = "rejected" /\ ~isQuotaExceeded(r) ->
                                         "Error connecting to AI"
                                  [] OTHER -> feedback
                 /\ quotaError' = (isQuotaExceeded(r) \/ quotaError)
                 /\ validating' = FALSE
    /\ requests' = RemoveAt(requests, k)
    /\ UNCHANGED <<game, strict, mounts, challenge, status, loading, queue, queueRef,
                   history, saved, fetches, logged, hintLoading, evaluating, activeHint,
                   result, selected, recentResult, elements, retryVars, svcVars>>

\* LadderGame.handleGetHint up to the await (the button is rendered while
\* no validation runs); with no step on the bridge the read of the last step
\* throws before any setter
Ladder_handleGetHint ==
    /\ game = "ladder"
    /\ Interactive
    /\ screen = "play"
    /\ ~won
    /\ ~validating
    /\ ~hintLoading
    /\ steps > 0
    /\ hintLoading' = TRUE
    /\ activeHint' = NoHint
    /\ quotaError' = FALSE
    /\ requests' = Append(requests, Request("hint", NoValue))
    /\ UNCHANGED <<game, strict, mounts, challenge, status, loading, queue, queueRef,
                   history, saved, fetches, logged, validating, evaluating, won, steps, feedback,
                   result, selected, recentResult, elements, retryVars, svcVars>>

\* LadderGame.handleGetHint after the await
Ladder_handleGetHintResumes(k) ==
    /\ game = "ladder"
    /\ requests[k].purpose = "hint"
    /\ requests[k].resp.kind # "pending"
    /\ LET r == requests[k].resp
       IN /\ activeHint' = IF r.kind = "fulfilled" /\ r.value # NoValue THEN requests[k].at
                                                                      ELSE activeHint
          /\ quotaError' = (isQuotaExceeded(r) \/ quotaError)
    /\ hintLoading' = FALSE
    /\ requests' = RemoveAt(requests, k)
    /\ UNCHANGED <<game, strict, mounts, challenge, status, loading, queue, queueRef,
                   history, saved, fetches, logged, validating, evaluating, won, steps, feedback,
                   result, selected, recentResult, elements, retryVars, svcVars>>

\* LadderGame.handleChangeKey: removeApiKey(), then window.location.reload()
Ladder_handleChangeKey ==
    /\ game = "ladder"
    /\ Interactive
    /\ screen = "quota"
    /\ storedKey' = "null"
    /\ mounts' = 0
    /\ challenge' = <<>>
    /\ loading' = FALSE
    /\ quotaError' = FALSE
    /\ logged' = NoError
    /\ validating' = FALSE
    /\ hintLoading' = FALSE
    /\ won' = FALSE
    /\ steps' = 0
    /\ feedback' = NoValue
    /\ activeHint' = NoHint
    /\ requests' = <<>>
    /\ UNCHANGED <<game, strict, status, queue, queueRef, history, saved, fetches, evaluating,
                   result, selected, recentResult, elements, retryVars,
                   svc, envKey, moduleAi, caches, recipes, others, op>>

\* ArenaGame.loadNewChallenge after the await
Arena_loadNewChallengeResumes(k) ==
    /\ game = "arena"
    /\ requests[k].purpose = "load"
    /\ requests[k].resp.kind # "pending"
    /\ LET r == requests[k].resp
       IN /\ challenge' = IF r.kind = "fulfilled" /\ r.value # NoValue THEN <<r.value>>
                                                                      ELSE challenge
          /\ quotaError' = (isQuotaExceeded(r) \/ quotaError)
    /\ loading' = FALSE
    /\ requests' = RemoveAt(requests, k)
    /\ UNCHANGED <<game, strict, mounts, status, queue, queueRef, history, saved, fetches, logged,
                   validating, hintLoading, evaluating, won, steps, feedback, activeHint,
                   result, selected, recentResult, elements, retryVars, svcVars>>

\* the button shown with the result: onClick={loadNewChallenge}
Arena_clickNext ==
    /\ game = "arena"
    /\ Interactive
    /\ screen = "play"
    /\ result # NoValue
    /\ Arena_loadNewChallenge
    /\ UNCHANGED <<game, strict, mounts, status, queue, queueRef, history, saved, fetches,
                   retryVars, svcVars>>

\* ArenaGame.handleExecute up to the await (the form is rendered while there
\* is no result; the player typed a strategy)
Arena_handleExecute ==
    /\ game = "arena"
    /\ Interactive
    /\ screen = "play"
    /\ result = NoValue
    /\ ~evaluating
    /\ evaluating' = TRUE
    /\ result' = NoValue
    /\ requests' = Append(requests, Request("evaluate", NoValue))
    /\ UNCHANGED <<gameVars, validating, hintLoading, won, steps, feedback, activeHint,
                   selected, recentResult, elements, retryVars, svcVars>>

\* ArenaGame.handleExecute after the await
Arena_handleExecuteResumes(k) ==
    /\ game = "arena"
    /\ requests[k].purpose = "evaluate"
    /\ requests[k].resp.kind # "pending"
    /\ LET r == requests[k].resp
       IN /\ result' = IF r.kind = "fulfilled" /\ r.value # NoValue THEN r.value ELSE result
          /\ quotaError' = (isQuotaExceeded(r) \/ quotaError)
    /\ evaluating' = FALSE
    /\ requests' = RemoveAt(requests, k)
    /\ UNCHANGED <<game, strict, mounts, challenge, status, loading, queue, queueRef,
                   history, saved, fetches, logged, validating, hintLoading, won, steps, feedback,
                   activeHint, selected, recentResult, elements, retryVars, svcVars>>

\* AlchemyGame.handleSelect (the grid of elements lies outside the overlay)
Alchemy_handleSelect(el) ==
    /\ game = "alchemy"
    /\ Interactive
    /\ arrayIncludes(elements, el)
    /\ Len(selected) < 2
    /\ selected' = Append(selected, el)
    /\ UNCHANGED <<gameVars, validating, hintLoading, evaluating, won, steps, feedback,
                   activeHint, result, recentResult, elements, requests, retryVars, svcVars>>

\* AlchemyGame.handleClear (the button lies under the overlay while loading)
Alchemy_handleClear ==
    /\ game = "alchemy"
    /\ Interactive
    /\ screen = "play"
    /\ selected # <<>>
    /\ selected' = <<>>
    /\ UNCHANGED <<gameVars, validating, hintLoading, evaluating, won, steps, feedback,
                   activeHint, result, recentResult, elements, requests, retryVars, svcVars>>

\* AlchemyGame.handleCombine up to the await
Alchemy_handleCombine ==
    /\ game = "alchemy"
    /\ Interactive
    /\ screen = "play"
    /\ Len(selected) = 2
    /\ ~loading
    /\ loading' = TRUE
    /\ recentResult' = NoValue
    /\ requests' = Append(requests, Request("combine", NoValue))
    /\ UNCHANGED <<game, strict, mounts, challenge, status, quotaError, queue, queueRef,
                   history, saved, fetches, logged, validating, hintLoading, evaluating, won,
                   steps, feedback, activeHint, result, selected, elements,
                   retryVars, svcVars>>

\* AlchemyGame.handleCombine after the await: there is no try around the
\* await, so a rejection ends the handler there
Alchemy_handleCombineResumes(k) ==
    /\ game = "alchemy"
    /\ requests[k].purpose = "combine"
    /\ requests[k].resp.kind # "pending"
    /\ LET r == requests[k].resp
           newEl == r.kind = "fulfilled" /\ r.value # NoValue
           exists == arrayIncludes(elements, r.value)
       IN IF r.kind = "rejected"
            THEN UNCHANGED <<loading, selected, elements, recentResult>>
            ELSE /\ elements' = IF newEl /\ ~exists THEN <<r.value>> \o elements ELSE elements
                 /\ recentResult' = IF newEl THEN [name |-> r.value, isNew |-> ~exists]
                                             ELSE recentResult
                 /\ loading' = FALSE
                 /\ selected' = <<>>
    /\ requests' = RemoveAt(requests, k)
    /\ UNCHANGED <<game, strict, mounts, challenge, status, quotaError, queue, queueRef,
                   history, saved, fetches, logged, validating, hintLoading, evaluating, won,
                   steps, feedback, activeHint, result, retryVars, svcVars>>

\* AlchemyGame.resetGame, confirmed
Alchemy_resetGame ==
    /\ game = "alchemy"
    /\ Interactive
    /\ elements # INITIAL_ELEMENTS \/ selected # <<>>
    /\ elements' = INITIAL_ELEMENTS
    /\ selected' = <<>>
    /\ UNCHANGED <<gameVars, validating, hintLoading, evaluating, won, steps, feedback,
                   activeHint, result, recentResult, requests, retryVars, svcVars>>

PlayNext ==
    \/ PlayMount
    \/ \E k \in 1..Len(requests) : \E r \in PlayOutcomes(requests[k].purpose) : RequestSettles(k, r)
    \/ \E k \in 1..Len(requests) : Ladder_loadGameResumes(k)
    \/ Ladder_clickNext
    \/ \E guess \in {"target", "other"} : Ladder_handleSubmit(guess)
    \/ \E k \in 1..Len(requests) : Ladder_handleSubmitResumes(k)
    \/ Ladder_handleGetHint
    \/ \E k \in 1..Len(requests) : Ladder_handleGetHintResumes(k)
    \/ Ladder_handleChangeKey
    \/ \E k \in 1..Len(requests) : Arena_loadNewChallengeResumes(k)
    \/ Arena_clickNext
    \/ Arena_handleExecute
    \/ \E k \in 1..Len(requests) : Arena_handleExecuteResumes(k)
    \/ \E el \in AlchemyAnswers \cup {"Fire"} : Alchemy_handleSelect(el)
    \/ Alchemy_handleClear
    \/ Alchemy_handleCombine
    \/ \E k \in 1..Len(requests) : Alchemy_handleCombineResumes(k)
    \/ Alchemy_resetGame

RetryIdle ==
    /\ variant = "App666"
    /\ rpc = "idle"
    /\ i = 0
    /\ currentDelay = DefaultInitialDelay
    /\ timers = <<>>
    /\ calls = 0
    /\ thrown = NoError

GameIdle ==
    /\ game = "cipher"
    /\ strict = FALSE
    /\ mounts = 0
    /\ challenge = <<>>
    /\ status = "IDLE"
    /\ loading = FALSE
    /\ quotaError = FALSE
    /\ queue = <<>>
    /\ queueRef = <<>>
    /\ history = <<>>
    /\ saved = <<>>
    /\ fetches = <<>>
    /\ logged = NoError

RetryNext ==
    \/ retryWithBackoff
    \/ OperationResolves
    \/ \E error \in ProviderErrors : OperationRejects(error)
    \/ TimerFires

InitRetry == RetryInit /\ GameIdle /\ SvcIdle /\ PlayIdle
SpecRetry == InitRetry /\ [][RetryNext]_vars

\* every attempt has an outcome and every timer set with setTimeout fires
RetryFairness ==
    /\ WF_vars(OperationResolves \/ \E error \in ProviderErrors : OperationRejects(error))
    /\ WF_vars(TimerFires)
SpecRetryFair == SpecRetry /\ RetryFairness

Init == RetryIdle /\ GameInit /\ SvcIdle /\ PlayIdle
Next == GameNext
Spec == Init /\ [][Next]_vars

InitCred == RetryIdle /\ GameIdle /\ SvcInit /\ PlayIdle
SpecCred == InitCred /\ [][CredNext]_vars

InitCache == RetryIdle /\ GameIdle /\ SvcInit /\ PlayIdle /\ hasCache(svc) /\ envKey = "K1" /\ storedKey = "null"
SpecCache == InitCache /\ [][CacheNext]_vars

InitPlay == RetryIdle /\ SvcIdle /\ PlayInit
SpecPlay == InitPlay /\ [][PlayNext]_vars

(***************************************************************************)
(* Claims about the prefetch queue, checked under Spec.                    *)
(***************************************************************************)
inHistory(h, c) == \E n \in 1..Len(h) : h[n] = identOf(game, c)

\* the items of batch whose identifying field is not in h, in batch order
RECURSIVE Survivors(_, _)
Survivors(batch, h) ==
    IF batch = <<>> THEN <<>>
    ELSE IF inHistory(h, Head(batch)) THEN Survivors(Tail(batch), h)
    ELSE <<Head(batch)>> \o Survivors(Tail(batch), h)

\* fetch k has been answered with a JSON array (fenced or not)
Delivered(k) ==
    fetches[k].resp.kind = "return" /\ fetches[k].resp.text.kind = "json"
deliveredBatch(k) == fetches[k].resp.text.value

\* fetch k has failed: retryWithBackoff threw, or the text is not JSON
Failed(k) ==
    \/ fetches[k].resp.kind = "throw"
    \/ (fetches[k].resp.kind = "return" /\ fetches[k].resp.text.kind = "garbage")
failureOf(k) ==
    IF fetches[k].resp.kind = "throw" THEN fetches[k].resp.err ELSE SyntaxError

\* C1: every item a next() call hands to the controller, popped from the
\* queue or taken from a fresh batch, has an identifying field that is not in
\* the history passed to that call.
C1_NextItemNotInHistory ==
    [][ /\ (handleNext /\ queueRef # <<>>) => ~inHistory(history, challenge'[1])
        /\ \A k \in 1..Len(fetches) :
             (LoadContinuation(k) /\ Delivered(k)
                /\ Survivors(deliveredBatch(k), fetches[k].hist) # <<>>)
             => ~inHistory(fetches[k].hist, challenge'[1]) ]_vars

\* C2: when a fetched batch is admitted, neither the item returned nor any
\* item placed in the queue has an identifying field in the mode's history
\* as it is at that moment.
C2_AdmittedNotInHistory ==
    [][ \A k \in 1..Len(fetches) :
          (LoadContinuation(k) /\ Delivered(k)
             /\ Survivors(deliveredBatch(k), fetches[k].hist) # <<>>)
          => /\ ~inHistory(history, challenge'[1])
             /\ \A n \in 1..Len(queue') : ~inHistory(history, queue'[n]) ]_vars

\* C3: when a fetched batch has k >= 1 items that survive the history
\* filter, next() returns the first survivor and the queue afterwards holds
\* exactly the other k-1 survivors in batch order.
C3_RefillFirstAndRest ==
    [][ \A k \in 1..Len(fetches) :
          (LoadContinuation(k) /\ Delivered(k)
             /\ Survivors(deliveredBatch(k), fetches[k].hist) # <<>>)
          => /\ challenge' = <<Head(Survivors(deliveredBatch(k), fetches[k].hist))>>
             /\ queue' = Tail(Survivors(deliveredBatch(k), fetches[k].hist)) ]_vars

\* C3 witness: production build, a batch of three survivors has just been
\* admitted into an empty queue (the ref still shows the empty queue).
C3_Witness ==
    /\ ~strict /\ Mounted /\ fetches = <<>>
    /\ challenge # <<>> /\ Len(queue) = 2 /\ queueRef = <<>>

C5_SingleFlight == Len(fetches) <= 1

\* C6: when a batch fetch fails, the catch block receives the very error
\* that retryWithBackoff or JSON.parse threw, and the queue and the
\* displayed item are what they were before.
C6_FailedFetchAllOrNothing ==
    [][ \A k \in 1..Len(fetches) :
          (LoadContinuation(k) /\ Failed(k))
          => /\ queue' = queue
             /\ challenge' = challenge
             /\ IF failureOf(k).name = "QuotaExceededError"
                  THEN (IF game = "cipher" THEN quotaError' ELSE status' = "QUOTA")
                       /\ logged' = logged
                  ELSE logged' = failureOf(k) ]_vars

\* C6 witness: CipherGame in the production build right after its fetch has
\* failed: the error is on the console, nothing is queued or displayed.
C6_Witness ==
    /\ game = "cipher" /\ ~strict /\ Mounted /\ fetches = <<>> /\ ~loading
    /\ logged # NoError /\ queue = <<>> /\ challenge = <<>>

(***************************************************************************)
(* Claims about retryWithBackoff, checked under SpecRetry.                 *)
(* The classes of the error taxonomy, first match first: a message with    *)
(* "not found" is a credential error, then the quota markers, then the     *)
(* transient markers.                                                      *)
(***************************************************************************)
hasWording(e, words) == includes(errorMessageOf(e), words)

NotFoundWorded(e) == hasWording(e, <<"not", "found">>)

QuotaMarked(e) ==
    \/ statusOf(e) = "RESOURCE_EXHAUSTED"
    \/ (statusOf(e) = "429" /\ hasWording(e, <<"quota">>))
    \/ hasWording(e, <<"resource", "exhausted">>)

QuotaClassified(e) == ~NotFoundWorded(e) /\ QuotaMarked(e)

TransientClassified(e) ==
    /\ ~NotFoundWorded(e)
    /\ ~QuotaMarked(e)
    /\ (statusOf(e) \in {"429", "503"} \/ hasWording(e, <<"overloaded">>))

\* C7: a transient-classified failure of the first attempt is followed by a
\* wait of 2000 ms, one of the second attempt by a wait of 4000 ms, each wait
\* by one more attempt, and one of the third attempt by the throw: three
\* attempts, waits of 2000 and 4000 ms, when every attempt fails that way.
C7_ThreeAttemptsBackoff ==
    [][ /\ \A e \in ProviderErrors :
             (OperationRejects(e) /\ TransientClassified(e))
             => /\ calls \in 1..3
                /\ calls = 1 => (rpc' = "sleep" /\ timers' = <<2000>>)
                /\ calls = 2 => (rpc' = "sleep" /\ timers' = <<2000, 4000>>)
                /\ calls = 3 => (rpc' = "thrown" /\ timers' = <<2000, 4000>>)
        /\ rpc = "sleep" => (rpc' = "attempt" /\ calls' = calls + 1 /\ timers' = timers)
      ]_vars

\* C7 witness: the invocation has thrown a transient-classified error after
\* three attempts and waits of 2000 and 4000 ms.
C7_Witness ==
    /\ rpc = "thrown" /\ calls = 3 /\ timers = <<2000, 4000>>
    /\ TransientClassified(thrown)

\* C8: a transient-classified failure of the last allowed attempt makes
\* retryWithBackoff throw an error whose message is "max retries exceeded".
C8_ThrowsMaxRetriesExceeded ==
    [][ \A e \in ProviderErrors :
          (OperationRejects(e) /\ TransientClassified(e) /\ calls = DefaultRetries)
          => /\ rpc' = "thrown"
             /\ toLowerCase(thrown'.message) = <<"max", "retries", "exceeded">> ]_vars

\* C9: a quota-classified failure of any attempt makes retryWithBackoff throw
\* QuotaExceededError at once: no timer is set, no further attempt is made.
C9_QuotaShortCircuit ==
    [][ /\ \A e \in ProviderErrors :
             (OperationRejects(e) /\ QuotaClassified(e))
             => /\ rpc' = "thrown"
                /\ thrown' = QuotaExceededError
                /\ timers' = timers
                /\ calls' = calls
        /\ (rpc = "thrown" /\ calls' # calls) => (calls' = 1 /\ timers' = <<>>) ]_vars

\* C9 witness: QuotaExceededError thrown on the second attempt, after one
\* transient failure and its wait of 2000 ms; nothing was added after it.
C9_Witness ==
    /\ rpc = "thrown" /\ thrown = QuotaExceededError
    /\ calls = 2 /\ timers = <<2000>>

\* C10: a failure whose message contains "not found" is surfaced at once as
\* the invalid-credential error and is never retried, whatever its status.
C10_NotFoundIsFatal ==
    [][ \A e \in ProviderErrors :
          (OperationRejects(e) /\ NotFoundWorded(e))
          => /\ rpc' = "thrown"
             /\ thrown' = ApiKeyInvalid
             /\ timers' = timers ]_vars

(***************************************************************************)
(* Claims about the credential, checked under SpecCred.                    *)
(***************************************************************************)
\* a content operation is called
ContentCall ==
    \/ \E p \in CasePairs : CallCombine(p[1], p[2])
    \/ \E guess \in {NameFire, NameFireLower} : CallValidate(NameFire, NameWater, guess)
    \/ CallBatch

\* no source holds a non-empty value
NoCredential == storedKey \in {"null", ""} /\ envKey \in {"undefined", ""}

\* the active credential: the persisted value first, then the environment's
ActiveCredential == IF storedKey \notin {"null", ""} THEN storedKey ELSE envKey

\* C11: a content operation called while no credential source yields a
\* non-empty value fails with the credential-missing error; it issues no
\* model request (so there is nothing to retry or wait for) and writes no
\* cache entry.
C11_NoCredentialNoRequest ==
    [][ (ContentCall /\ NoCredential)
        => /\ op'.phase = "rejected"
           /\ op'.err \in {ApiKeyMissing, ApiKeyMissingArena}
           /\ ~op'.issued
           /\ caches' = caches ]_vars

\* C12: the client of every model request is built from the credential that
\* is active when the operation is called, also after setApiKey,
\* removeApiKey or a key selection between two calls.
C12_ClientFromCurrentCredential ==
    [][ (ContentCall /\ op'.issued) => op'.client = ActiveCredential ]_vars

(***************************************************************************)
(* Claims about the alchemy cache, checked under SpecCache.                *)
(***************************************************************************)
\* the recorded successful combination is one of the pair {a, b}
recordedFor(r, a, b) == r.pair = {a, b}

\* the call serves the recorded result from the cache
servedFromCache(r) ==
    /\ op'.phase = "resolved"
    /\ op'.result = [tag |-> "item", objs |-> <<r.data>>, isNew |-> FALSE]
    /\ ~op'.issued

\* a combination answered by the model returns isNew true
firstCallIsNew ==
    (op.phase = "awaiting" /\ op'.phase = "resolved" /\ op'.result.tag = "item")
    => op'.result.isNew

\* C13 as stated: the key does not depend on the order of the two names, a
\* combination answered by the model returns isNew true, and any later call
\* with the same unordered pair returns the recorded name and emoji with
\* isNew false and without a model call.
C13_AnyLaterCallServed ==
    [][ /\ \A a, b \in ElemNames : cacheKey(a, b) = cacheKey(b, a)
        /\ firstCallIsNew
        /\ \A p \in OrderPairs : \A r \in recipes :
             (CallCombine(p[1], p[2]) /\ recordedFor(r, p[1], p[2]))
             => servedFromCache(r) ]_vars

\* C13 amended: the same, for later calls made before CacheLimit further
\* combinations have been cached (the entry is then still in the cache).
C13_LaterCallServedUntilEvicted ==
    [][ /\ \A a, b \in ElemNames : cacheKey(a, b) = cacheKey(b, a)
        /\ firstCallIsNew
        /\ \A p \in OrderPairs : \A r \in recipes :
             (CallCombine(p[1], p[2]) /\ recordedFor(r, p[1], p[2])
                /\ others - r.at < CacheLimit)
             => servedFromCache(r) ]_vars

\* C13 witness: in the version that evicts, ("Water", "Fire") has just been
\* served from the cache after ("Fire", "Water") or ("Water", "Fire") had
\* succeeded and CacheLimit - 1 other combinations had been cached since.
C13_Witness ==
    /\ svc = "App642" /\ op.kind = "combine" /\ op.phase = "resolved"
    /\ op.args = <<NameWater, NameFire>> /\ ~op.result.isNew
    /\ \E r \in recipes : r.pair = {NameFire, NameWater} /\ others - r.at = CacheLimit - 1

\* the canonical key: both names lowercased, then sorted, then joined
canonicalKey(a, b) == joinPlus(sortPair(toLowerCaseUnits(a), toLowerCaseUnits(b)))

\* C14: the cache key of a combination equals its two inputs each
\* lowercased, then sorted, then joined, so that inputs that differ only in
\* argument order and letter case have the same key.
C14_CanonicalCacheKey ==
    (op.kind = "combine" /\ hasCache(svc))
    => op.key = canonicalKey(op.args[1], op.args[2])

\* C15: the persisted alchemy cache never holds more than CacheLimit (500)
\* entries, whatever is saved into it.
C15_CacheAtMostLimit == Len(caches.alchemy) <= CacheLimit

(***************************************************************************)
(* Claims about decoding, checked under SpecCred.                          *)
(***************************************************************************)
\* the fields every item of the kind must have
RequiredFields(kind) ==
    IF kind = "combine" THEN {"name", "emoji"}
    ELSE IF kind = "validate" THEN {"isValid", "message"}
    ELSE {"title"}

complete(kind, o) == \A f \in RequiredFields(kind) : o[f] # Undefined

\* a non-empty response text that cannot be decoded into an item of the kind
Undecodable(kind, text) ==
    \/ text = <<"Sorry", ",", "no">>
    \/ \E o \in ModelObjects(kind) :
          /\ ~complete(kind, o)
          /\ text \in {stringify(o), wrapInFence(stringify(o))}

\* C16: decoding the JSON text of an item wrapped in a markdown code fence
\* gives back the item: the object the operation returns equals the object
\* whose text was sent.
C16_DecodeInvertsFence ==
    [][ \A o \in ModelObjects(op.kind) :
          (op.kind \in {"combine", "validate"} /\ complete(op.kind, o)
             /\ OperationSettles(SvcReturned(wrapInFence(stringify(o)))))
          => (op'.phase = "resolved" /\ op'.result.objs = <<o>>) ]_vars

\* C17: a response that cannot be decoded (not JSON after fence stripping,
\* or an object without a required field) makes the operation reject; it
\* does not resolve with null, a list, a verdict or an item.
C17_UndecodableRejects ==
    [][ \A t \in ModelTexts(op.kind) :
          (op.kind \in {"combine", "validate"} /\ Undecodable(op.kind, t)
             /\ OperationSettles(SvcReturned(t)))
          => op'.phase = "rejected" ]_vars

(***************************************************************************)
(* C18 - C20: LadderGame, ArenaGame, AlchemyGame.                          *)
(***************************************************************************)
\* the continuation of request k runs in this step
Resumes(k) == requests[k].resp.kind # "pending" /\ requests' = RemoveAt(requests, k)

\* C18: when a request of a controller fails with QuotaExceededError the
\* controller shows its quota state, which is neither loading nor the error
\* state, and nothing but a remount (mounts back to 0) leaves that state.
C18_QuotaStateTerminal ==
    [][ /\ \A k \in 1..Len(requests) :
             Resumes(k) /\ isQuotaExceeded(requests[k].resp) => screen' = "quota"
        /\ screen = "quota" => screen' = "quota" \/ mounts' = 0 ]_vars

\* the handler that issues a request for the purpose is enabled for the player
canIssue(purpose) ==
    CASE purpose = "load" ->
            \/ game \in Ladders /\ screen = "play" /\ won
            \/ game = "arena" /\ screen = "play" /\ result # NoValue
      [] purpose = "validate" ->
            game \in Ladders /\ screen = "play" /\ ~won /\ ~validating /\ steps > 0
      [] purpose = "hint" ->
            game = "ladder" /\ screen = "play" /\ ~won /\ ~validating /\ ~hintLoading /\ steps > 0
      [] purpose = "evaluate" ->
            game = "arena" /\ screen = "play" /\ result = NoValue /\ ~evaluating
      [] purpose = "combine" ->
            game = "alchemy" /\ screen = "play" /\ Len(selected) = 2

failedNotQuota(r) == r.kind = "rejected" /\ ~isQuotaExceeded(r)

\* C19: after a request has failed with an error other than
\* QuotaExceededError, the handler that issues that request is enabled in the
\* state the controller ends in.
C19_FailureLeavesActionEnabled ==
    [][ \A k \in 1..Len(requests) :
            Resumes(k) /\ failedNotQuota(requests[k].resp)
                => \E p \in {requests[k].purpose} : canIssue(p)' ]_vars

inFlight(purpose) ==
    {k \in 1..Len(requests) : requests[k].purpose = purpose /\ requests[k].resp.kind = "pending"}

\* C20: within one controller at most one request per purpose (content load,
\* step validation, hint, combat evaluation) is in flight at any time.
C20_OneRequestPerPurpose ==
    \A purpose \in Purposes : Cardinality(inFlight(purpose)) <= 1

(***************************************************************************)
(* C21 - C22: history and the prefetch queue of CipherGame / EmojiGame.    *)
(***************************************************************************)
isPrefix(a, b) == Len(a) <= Len(b) /\ SubSeq(b, 1, Len(a)) = a

\* the page is reloaded by clearHistory
Cleared == mounts' = 0 /\ mounts # 0

\* C21: when the player solves or gives up on the current item, its
\* identifier is in history and in the stored item after the step; every
\* later call for content is made with the history of that moment; and
\* history only grows until clearHistory.
C21_SolvedItemRecorded ==
    [][ /\ (handleSubmit(TRUE) \/ handleGiveUp)
             => /\ arrayIncludes(history', identOf(game, challenge[1]))
                /\ saved' = <<history'>>
        /\ Len(fetches') > Len(fetches) => fetches'[Len(fetches')].hist = history
        /\ ~Cleared => isPrefix(history, history') ]_vars

\* C21 witness: the current item has been solved, its identifier is the
\* last entry of history, and the stored item holds that history
C21_Witness ==
    /\ status = "SUCCESS"
    /\ challenge # <<>>
    /\ history # <<>>
    /\ history[Len(history)] = identOf(game, challenge[1])
    /\ saved = <<history>>

\* C22: the prefetch queue is first in, first out and hands out every
\* admitted item exactly once: the queue changes only by handing its head
\* to the player, by receiving a batch while it is empty, or by clearHistory.
C22_QueueFifoExactlyOnce ==
    [][ queue' # queue
          => \/ queue # <<>> /\ queue' = Tail(queue) /\ challenge' = <<Head(queue)>>
             \/ queue = <<>>
             \/ Cleared ]_vars

(***************************************************************************)
(* C23: the temporal ceiling of retryWithBackoff.                          *)
(***************************************************************************)
RECURSIVE sumOf(_)
sumOf(seq) == IF seq = <<>> THEN 0 ELSE Head(seq) + sumOf(Tail(seq))

RetryDone == rpc \in {"returned", "thrown"}

\* C23: whatever the outcomes of the attempts, retryWithBackoff makes at most
\* 3 attempts and at most 2 sleeps of at most 6000 ms in total, never sleeps
\* after the attempt on which it returns or throws, and terminates.
C23_BoundedRetry ==
    /\ [](/\ calls <= 3
          /\ Len(timers) <= 2
          /\ sumOf(timers) <= 6000
          /\ rpc \in {"attempt", "returned", "thrown"} => Len(timers) = calls - 1)
    /\ (rpc \in {"attempt", "sleep"} ~> RetryDone)

\* C23 witness: the third attempt has failed after sleeps of 2000 and 4000 ms
C23_Witness ==
    /\ rpc = "thrown"
    /\ calls = 3
    /\ timers = <<2000, 4000>>

(***************************************************************************)
(* C24: winning the word ladder.                                           *)
(***************************************************************************)
\* the continuation of a validation that accepted the guess
AcceptedBy(k) ==
    /\ Resumes(k)
    /\ requests[k].purpose = "validate"
    /\ requests[k].resp.kind = "fulfilled"
    /\ requests[k].resp.value = "valid"

\* C24: won becomes true only in the continuation of a validation that
\* accepted a guess equal to the target word, a step is added to the list only
\* in the continuation of a validation that accepted the guess, and while won
\* is true no validation or hint is requested.
C24_WonOnlyAfterValidation ==
    [][ /\ won' /\ ~won
            => \E k \in 1..Len(requests) : AcceptedBy(k) /\ requests[k].arg = "target"
        /\ steps' > 1 /\ steps' # steps => \E k \in 1..Len(requests) : AcceptedBy(k)
        /\ won /\ Len(requests') > Len(requests)
            => requests'[Len(requests')].purpose = "load" ]_vars

(***************************************************************************)
(* C25: the item on screen after a load in EmojiGame.                      *)
(***************************************************************************)
\* C25: in EmojiGame, when no load is running (status IDLE) and a challenge
\* is on screen, the answer of that challenge is not in history.
C25_IdleChallengeIsFresh ==
    game = "emoji" /\ status = "IDLE" /\ challenge # <<>> /\ fetches = <<>>
        => ~inHistory(history, challenge[1])

(***************************************************************************)
(* C26: the hint on screen.                                                *)
(***************************************************************************)
\* C26: a hint that is displayed was asked for the word of the current last
\* step of the bridge.
C26_HintForCurrentStep ==
    game = "ladder" /\ activeHint # NoHint => activeHint = steps

(***************************************************************************)
(* C27: spinner flags.                                                     *)
(***************************************************************************)
\* the flag a handler sets before it awaits a request of the purpose
flagOf(purpose) ==
    CASE purpose = "validate" -> validating
      [] purpose = "hint" -> hintLoading
      [] purpose = "evaluate" -> evaluating
      [] OTHER -> loading

\* C27: when a request has settled (with a value, with null or with an
\* error) and its handler has resumed, the flag set for that request is clear.
C27_FlagClearedAfterSettle ==
    [][ \A k \in 1..Len(requests) :
            Resumes(k) => \E p \in {requests[k].purpose} : ~flagOf(p)' ]_vars

(***************************************************************************)
(* Claims about the cache store, checked under SpecCache.                  *)
(***************************************************************************)
\* the keys of the cache in the order of Object.keys
idsOf(entries) == [n \in 1..Len(entries) |-> entries[n].id]

\* keys a write may carry: the pair of the player (present or absent), the
\* oldest and the newest of the other pairs, and one never written
WriteIds == {cacheKey(NameFire, NameWater), otherId(1), otherId(others), otherId(others + 1)}

WriteData == {OtherData, obj2("name", <<"Steam">>, "emoji", <<"cloud">>)}

\* saveCache(store, id, data) followed by getCache(store)[id]
putThenGet(entries, id, data) ==
    LET cache == saveCache(svc, entries, id, data)
    IN /\ hasEntry(cache, id)
       /\ entryOf(cache, id) = data
       /\ hasEntry(entries, id)
            => idsOf(cache) = idsOf(entries)
       /\ (~hasEntry(entries, id) /\ Len(entries) < CacheLimit)
            => cache = Append(entries, [id |-> id, data |-> data])
       /\ (~hasEntry(entries, id) /\ Len(entries) = CacheLimit)
            => cache = Append(Tail(entries), [id |-> id, data |-> data])

\* C28: in the service that evicts, a lookup made right after
\* saveCache(store, k, v) returns v, also when the store holds CacheLimit
\* entries: the entry deleted is then the oldest one and never the one just
\* written, and writing a key that is present keeps the keys and their
\* count.  It holds for every write the store can take in a reachable state
\* and for the write a combination answered by the model makes.
C28_PutThenGetAtCeiling ==
    [][ svc = "App642"
          => /\ \A id \in WriteIds : \A data \in WriteData :
                   putThenGet(caches.alchemy, id, data)
             /\ (op.kind = "combine" /\ op.phase = "awaiting"
                    /\ caches'.alchemy # caches.alchemy)
                  => (/\ hasEntry(caches'.alchemy, op.key)
                      /\ op'.result.objs = <<entryOf(caches'.alchemy, op.key)>>
                      /\ Len(caches.alchemy) = CacheLimit
                           => idsOf(caches'.alchemy)
                                = Append(Tail(idsOf(caches.alchemy)), op.key)) ]_vars

\* C28 witness: the pair of the player has just been written into a store
\* that held CacheLimit entries; it is the last key and the count is still
\* CacheLimit.
C28_Witness ==
    /\ svc = "App642" /\ op.kind = "combine" /\ op.phase = "resolved" /\ op.result.isNew
    /\ others >= CacheLimit
    /\ Len(caches.alchemy) = CacheLimit
    /\ caches.alchemy[CacheLimit].id = op.key
    /\ caches.alchemy[1].id # op.key

(***************************************************************************)
(* Claims about cache writes, checked under SpecCred.                      *)
(***************************************************************************)
\* a response text that is not JSON
Refusal == <<"Sorry", ",", "no">>

\* the model call failed, or its text is empty or does not parse
failedOrEmpty(r) == r.kind = "throw" \/ r.text = <<>> \/ r.text = Refusal

\* the response was received and parsed
receivedAndParsed(r) ==
    r.kind = "return" /\ r.text # <<>> /\ parseObject(cleanJsonText(r.text)).ok

\* C29: the alchemy and ladder caches change only in the continuation of a
\* combine or validate call whose response was received and parsed; when
\* the call fails with any error, or the text is empty or does not parse,
\* both caches are left as they were, and a call whose key is not in the
\* cache goes to the model (or fails for want of a client) and is never
\* served from the cache.
C29_CacheWrittenOnlyAfterParse ==
    [][ /\ \A r \in SvcOutcomes(op.kind) :
              (op.kind \in {"combine", "validate"} /\ failedOrEmpty(r) /\ OperationSettles(r))
              => caches' = caches
        /\ caches' # caches
              => (/\ op.kind \in {"combine", "validate"}
                  /\ \E r \in SvcOutcomes(op.kind) : receivedAndParsed(r) /\ OperationSettles(r))
        /\ \A p \in CasePairs :
              (hasCache(svc) /\ CallCombine(p[1], p[2])
                 /\ ~hasEntry(caches.alchemy, cacheKey(p[1], p[2])))
              => (op'.issued \/ op'.phase = "rejected")
        /\ \A guess \in {NameFire, NameFireLower} :
              (svc = "App642" /\ CallValidate(NameFire, NameWater, guess)
                 /\ ~hasEntry(caches.ladder, ladderKey(NameFire, NameWater, guess)))
              => (op'.issued \/ op'.phase = "rejected") ]_vars

\* C29 witness: in the service with both caches a validation has been
\* rejected because its response text did not parse, and its key is not in
\* the ladder cache.
C29_Witness ==
    /\ svc = "App642" /\ op.kind = "validate" /\ op.phase = "rejected" /\ op.issued
    /\ op.err = SyntaxError
    /\ ~hasEntry(caches.ladder, op.key)

\* the service called with names that contain a separator
KeyNext ==
    \/ \E p \in SepPairs : CallCombine(p[1], p[2])
    \/ \E t \in SepTriples : CallValidate(t[1], t[2], t[3])
    \/ \E r \in SvcOutcomes(op.kind) : OperationSettles(r)

SpecKeys == InitCache /\ [][KeyNext]_vars

(***************************************************************************)
(* Claims about cache keys, checked under SpecKeys.                       *)
(***************************************************************************)
\* the unordered pair of names up to letter case
lowerPair(names) == {toLowerCaseUnits(n) : n \in names}

\* the triple up to letter case
lowerTriple(t) == [k \in 1..3 |-> toLowerCaseUnits(t[k])]

\* the key under which the recorded combination was cached
keyOf(r) == LET a == CHOOSE n \in r.pair : TRUE
                b == CHOOSE n \in r.pair : r.pair = {a, n}
            IN cacheKey(a, b)

\* C30: two combinations have the same cache key only if they are the same
\* unordered pair of names up to letter case, two validations only if they
\* are the same (current, target, guess) up to letter case, and a
\* combination is served from the cache only with the result recorded for
\* its own pair; also for names that contain '+' or '_'.
C30_CacheKeysInjective ==
    [][ /\ \A p, q \in OrderPairs \cup CasePairs \cup SepPairs :
              cacheKey(p[1], p[2]) = cacheKey(q[1], q[2])
              => lowerPair({p[1], p[2]}) = lowerPair({q[1], q[2]})
        /\ \A t, u \in SepTriples \cup {<<NameFire, NameWater, NameFire>>,
                                         <<NameFire, NameWater, NameFireLower>>} :
              ladderKey(t[1], t[2], t[3]) = ladderKey(u[1], u[2], u[3])
              => lowerTriple(t) = lowerTriple(u)
        /\ \A p \in SepPairs : \A r \in recipes :
              (CallCombine(p[1], p[2]) /\ op'.phase = "resolved" /\ ~op'.issued
                 /\ op'.key = keyOf(r) /\ op'.result.objs = <<r.data>>)
              => lowerPair({p[1], p[2]}) = lowerPair(r.pair) ]_vars

====
